---- MODULE Spec2Model ----
(***************************************************************************)
(* A model of dom.js (mlcheng/js-vdom): the component loader Load, the     *)
(* template evaluator, the differ/patcher _patch and the property observer *)
(* _observe, over an explicit heap of DOM nodes.                           *)
(*                                                                         *)
(* A DOM node is a record in the sequence `nodes`; its index is its        *)
(* identity.  The `$iq` metadata Maps hung on elements live in `metas`     *)
(* (two elements may share one Map, as dom.js:628 makes them), controller  *)
(* instances live in `ctrls`.  Every handler of the program runs to        *)
(* completion on the single UI thread, so each is one action.              *)
(***************************************************************************)
EXTENDS Integers, Sequences, FiniteSets, TLC

VARIABLES
    nodes,    \* heap of DOM nodes; node 1 is the live root
    metas,    \* heap of the Map objects stored under IQ_SYM
    ctrls,    \* heap of controller instances
    log,      \* DOM mutations the last operation made on attached nodes
    hooks,    \* lifecycle hook calls of the last operation, in order
    thrown,   \* the last operation raised to its caller
    op,       \* the last operation and its arguments
    prev,     \* `nodes` as it was before the last operation
    renders,  \* render callbacks (detector -> Load) run so far
    writes,   \* changing writes to intercepted properties so far
    steps,    \* operations the behaviour may still perform
    storage,  \* APP_STATE_STORAGE: the value under each key, Undef when none
    objs      \* heap of the plain objects and containers handed to _observe

vars == <<nodes, metas, ctrls, log, hooks, thrown, op, prev, renders, writes, steps,
          storage, objs>>

----------------------------------------------------------------------------
(* Bounds of the model.                                                    *)

MaxNodes == 2     \* nodes of a tree handed to _patch in SpecPatch
MaxSteps == 4     \* operations in one behaviour of Spec
MaxDirectiveSteps == 3  \* operations in one behaviour of SpecDirectives
MaxSiblingSteps == 3    \* operations in one behaviour of SpecSiblings
MaxStateSteps == 3      \* operations in one behaviour of SpecState
MaxEventSteps == 3      \* operations in one behaviour of SpecEvents
MaxObserverSteps == 3   \* operations in one behaviour of SpecObserver
MaxNestedSteps == 3     \* operations in one behaviour of SpecNested
MaxConstructorSteps == 3  \* operations in one behaviour of SpecConstructor
StackLimit == 3   \* nested constructor calls the call stack has room for
MaxVal == 2       \* numbers a property may hold: 0..MaxVal
MaxItems == 2     \* length of an array a property may hold

----------------------------------------------------------------------------
(* The DOM: node records and the native operations dom.js calls.           *)

Document == 1          \* document.body, the root of the attached tree
Undef == 0 - 1         \* the value `undefined`

NoAttrs == [a \in {} |-> ""]
NoProps == [a \in {} |-> 0]

MkNode(type, tag, text, attrs) ==
    [type |-> type, tag |-> tag, text |-> text, attrs |-> attrs,
     kids |-> <<>>, parent |-> 0, meta |-> 0, props |-> NoProps,
     listeners |-> <<>>]

\* The keys of the global application state, and the state with no entry.
StateKeys == {"isLoggedIn"}

NoState == [key \in StateKeys |-> Undef]

EmptyWorld ==
    [nodes |-> <<MkNode("element", "body", "", NoAttrs)>>, metas |-> <<>>,
     ctrls |-> <<>>, log |-> {}, hooks |-> <<>>, err |-> FALSE, renders |-> 0,
     storage |-> NoState, depth |-> 0]

Remove(s, x) == SelectSeq(s, LAMBDA y : y # x)

IndexOf(s, x) == CHOOSE i \in 1..Len(s) : s[i] = x

RECURSIVE RootOf(_, _)
RootOf(ns, n) == IF ns[n].parent = 0 THEN n ELSE RootOf(ns, ns[n].parent)

\* A node is attached when its root is the document body.
Attached(ns, n) == RootOf(ns, n) = Document

\* Record a mutation when the node it acts on is attached.
Logged(W, target, entry) ==
    IF Attached(W.nodes, target) THEN [W EXCEPT !.log = @ \cup {entry}] ELSE W

Entry(o, at, node, old, name) ==
    [op |-> o, at |-> at, node |-> node, old |-> old, name |-> name]

\* Allocate a node; its identity is Len(W.nodes) + 1.
Alloc(W, rec) == [W EXCEPT !.nodes = Append(@, rec)]

\* A node leaves its parent (the first half of every DOM insertion).
Detach(W, c) ==
    LET p == W.nodes[c].parent
    IN  IF p = 0 THEN W
        ELSE Logged([W EXCEPT !.nodes[p].kids = Remove(@, c),
                              !.nodes[c].parent = 0],
                    p, Entry("remove", p, c, c, ""))

appendChild(W, p, c) ==
    LET W1 == Detach(W, c)
    IN  Logged([W1 EXCEPT !.nodes[p].kids = Append(@, c), !.nodes[c].parent = p],
               p, Entry("append", p, c, 0, ""))

removeChild(W, p, c) ==
    Logged([W EXCEPT !.nodes[p].kids = Remove(@, c), !.nodes[c].parent = 0],
           p, Entry("remove", p, c, c, ""))

\* parent.replaceChild(new, old) for a new node that is not a fragment.
replaceChild(W, p, new, old) ==
    LET W1 == Detach(W, new)
        i  == IndexOf(W1.nodes[p].kids, old)
    IN  Logged([W1 EXCEPT !.nodes[p].kids[i] = new,
                          !.nodes[new].parent = p,
                          !.nodes[old].parent = 0],
               p, Entry("replace", p, new, old, ""))

setAttribute(W, el, name, value) ==
    Logged([W EXCEPT !.nodes[el].attrs =
                [a \in DOMAIN @ \cup {name} |-> IF a = name THEN value ELSE @[a]]],
           el, Entry("attr", el, el, 0, name))

----------------------------------------------------------------------------
(* Names and markup conventions (dom.js:91-94).                            *)

\* The attribute names of the modelled templates that contain IQ_DIRECTIVE
\* ("iq."), which is what name.indexOf(IQ_DIRECTIVE) !== -1 tests.
IQ_DIRECTIVE == {"data-iq.for", "data-iq.if", "data-iq.count"}

\* dataset keys that start with IQ_DIRECTIVE: attribute -> directive or input.
DirectiveOf ==
    [a \in IQ_DIRECTIVE |->
        CASE a = "data-iq.for" -> "for"
          [] a = "data-iq.if" -> "if"
          [] a = "data-iq.count" -> "count"]

IQ_DIRECTIVES == {"for", "if"}

\* A fresh Map for IQ_SYM; the has* flags say which keys the Map holds.
MkMeta(hasInputs, hasLocal) ==
    [hasInputs |-> hasInputs, inputs |-> {},
     hasLocal |-> hasLocal, local |-> NoProps, ctrl |-> 0]

AllocMeta(W, rec) == [W EXCEPT !.metas = Append(@, rec)]

\* element[key] for an input key: undefined when the element has no such property.
PropOf(n, key) == IF key \in DOMAIN n.props THEN n.props[key] ELSE Undef

----------------------------------------------------------------------------
(* The differ/patcher (dom.js:597-654).                                    *)

\* A differ that compares node categories and tag names only.
_nodeChanged_NoText(prevNode, cur) ==
    \/ prevNode.type # cur.type
    \/ prevNode.tag # cur.tag

_nodeChanged(prevNode, cur) ==
    \/ prevNode.type # cur.type
    \/ prevNode.type = "text" /\ prevNode.text # cur.text
    \/ prevNode.tag # cur.tag

\* The attributes of `from` that are copied: not directive-named, and not
\* already on `node` with the same value.
CopiedAttrs(n, f) ==
    {a \in DOMAIN f.attrs :
        /\ a \notin IQ_DIRECTIVE
        /\ ~(a \in DOMAIN n.attrs /\ n.attrs[a] = f.attrs[a])}

RECURSIVE SetAttributes(_, _, _, _)
SetAttributes(W, node, from, names) ==
    IF names = {} THEN W
    ELSE LET a == CHOOSE x \in names : TRUE
         IN  SetAttributes(setAttribute(W, node, a, W.nodes[from].attrs[a]),
                           node, from, names \ {a})

\* A patcher that keeps the node's Map when the incoming element has none.
_patchFinalNodeWithData_KeepMeta(W, node, from) ==
    LET f  == W.nodes[from]
        W1 == SetAttributes(W, node, from, CopiedAttrs(W.nodes[node], f))
        inputs == IF f.meta # 0 /\ W.metas[f.meta].hasInputs
                  THEN W.metas[f.meta].inputs ELSE {}
        W2 == [W1 EXCEPT !.nodes[node].props =
                  [k \in DOMAIN @ \cup inputs |->
                      IF k \in inputs THEN PropOf(f, k) ELSE @[k]]]
    IN  IF f.meta = 0 THEN W2 ELSE [W2 EXCEPT !.nodes[node].meta = f.meta]

_patchFinalNodeWithData(W, node, from) ==
    LET f  == W.nodes[from]
        W1 == SetAttributes(W, node, from, CopiedAttrs(W.nodes[node], f))
        inputs == IF f.meta # 0 /\ W.metas[f.meta].hasInputs
                  THEN W.metas[f.meta].inputs ELSE {}
        W2 == [W1 EXCEPT !.nodes[node].props =
                  [k \in DOMAIN @ \cup inputs |->
                      IF k \in inputs THEN PropOf(f, k) ELSE @[k]]]
    IN  [W2 EXCEPT !.nodes[node].meta = f.meta]

RECURSIVE _patch(_, _, _)
RECURSIVE PatchAt(_, _, _, _, _)

\* One turn of the while loop of _patch, at index i of the two snapshots.
PatchAt(W, final, finalList, newList, i) ==
    IF i > Len(finalList) /\ i > Len(newList) THEN W
    ELSE LET W1 ==
               IF i > Len(finalList) THEN appendChild(W, final, newList[i])
               ELSE IF i > Len(newList) THEN removeChild(W, final, finalList[i])
               ELSE IF _nodeChanged(W.nodes[finalList[i]], W.nodes[newList[i]])
                    THEN replaceChild(W, W.nodes[finalList[i]].parent,
                                      newList[i], finalList[i])
               ELSE IF W.nodes[newList[i]].type = "element"
                    THEN _patchFinalNodeWithData(
                             _patch(W, finalList[i], newList[i]),
                             finalList[i], newList[i])
               ELSE W
         IN  PatchAt(W1, final, finalList, newList, i + 1)

_patch(W, final, from) ==
    PatchAt(W, final, W.nodes[final].kids, W.nodes[from].kids, 1)

----------------------------------------------------------------------------
(* Markup: what `container.innerHTML = markup` parses into fresh nodes     *)
(* (dom.js:409-410, 716-723).  A piece of markup is a sequence of trees.   *)

Txt(s) == [type |-> "text", tag |-> "", text |-> s, attrs |-> NoAttrs, kids |-> <<>>]

Comment(s) == [type |-> "comment", tag |-> "", text |-> s, attrs |-> NoAttrs, kids |-> <<>>]

El(tag, attrs, kids) ==
    [type |-> "element", tag |-> tag, text |-> "", attrs |-> attrs, kids |-> kids]

RECURSIVE ParseNode(_, _, _)
RECURSIVE ParseKids(_, _, _)

\* Parse one tree as the next child of `parent`.
ParseNode(W, t, parent) ==
    LET id == Len(W.nodes) + 1
        W1 == Alloc(W, [MkNode(t.type, t.tag, t.text, t.attrs) EXCEPT !.parent = parent])
    IN  ParseKids([W1 EXCEPT !.nodes[parent].kids = Append(@, id)], t.kids, id)

ParseKids(W, ts, parent) ==
    IF ts = <<>> THEN W
    ELSE ParseKids(ParseNode(W, Head(ts), parent), Tail(ts), parent)

\* document.createDocumentFragment(): the new node is Len(W.nodes) + 1.
createDocumentFragment(W) == Alloc(W, MkNode("fragment", "", "", NoAttrs))

\* The markup of the children of a node, directive attributes left out:
\* what a comparison of two trees by structure and content looks at.
RECURSIVE ContentOf(_, _)
ContentOf(ns, n) ==
    [i \in 1..Len(ns[n].kids) |->
        LET k == ns[ns[n].kids[i]]
        IN  [type |-> k.type, tag |-> k.tag,
             text |-> IF k.type = "element" THEN "" ELSE k.text,
             attrs |-> [a \in DOMAIN k.attrs \ IQ_DIRECTIVE |-> k.attrs[a]],
             kids |-> ContentOf(ns, ns[n].kids[i])]]

\* The nodes below n.
RECURSIVE Below(_, _)
Below(ns, n) ==
    UNION {{ns[n].kids[i]} \cup Below(ns, ns[n].kids[i]) : i \in 1..Len(ns[n].kids)}

----------------------------------------------------------------------------
(* SpecPatch: _patch applied to every pair of trees within MaxNodes.       *)

LeafMarkup == {Txt("0"), Txt("1"), Comment("iq.if removed node")}

ElementHeads == {<<"p", NoAttrs>>, <<"p", "class" :> "a">>, <<"b", NoAttrs>>}

RECURSIVE ForestsOf(_)

\* The trees of exactly k nodes.
TreesOf(k) ==
    (IF k = 1 THEN LeafMarkup ELSE {})
        \cup {El(h[1], h[2], ks) : h \in ElementHeads, ks \in ForestsOf(k - 1)}

\* The sequences of trees of exactly n nodes in all.
ForestsOf(n) ==
    IF n = 0 THEN {<<>>}
    ELSE UNION {{<<t>> \o r : t \in TreesOf(k), r \in ForestsOf(n - k)} : k \in 1..n}

Forests == UNION {ForestsOf(n) : n \in 0..MaxNodes}

\* The fragment handed to _patch as `from` in SpecPatch.
Incoming == 2

NoOp ==
    [name |-> "none", el |-> 0, ctrl |-> 0, field |-> "", changed |-> FALSE,
     rendered |-> 0, mounted |-> FALSE, twice |-> FALSE, arg |-> 0]

Commit(W, o, before) ==
    /\ nodes' = W.nodes
    /\ metas' = W.metas
    /\ ctrls' = W.ctrls
    /\ log' = W.log
    /\ hooks' = W.hooks
    /\ thrown' = W.err
    /\ op' = o
    /\ prev' = before
    /\ renders' = renders + W.renders
    /\ steps' = steps - 1
    /\ storage' = W.storage
    /\ objs' = objs

InitPatch ==
    \E committed \in Forests, incoming \in Forests :
        LET W == ParseKids(ParseKids(createDocumentFragment(EmptyWorld),
                                     committed, Document),
                           incoming, Incoming)
        IN  /\ nodes = W.nodes
            /\ metas = <<>>
            /\ ctrls = <<>>
            /\ log = {}
            /\ hooks = <<>>
            /\ thrown = FALSE
            /\ op = NoOp
            /\ prev = W.nodes
            /\ renders = 0
            /\ writes = 0
            /\ storage = NoState
            /\ objs = <<>>
            /\ steps = 1

\* The current state as the record the operators thread through.
World ==
    [nodes |-> nodes, metas |-> metas, ctrls |-> ctrls, log |-> {},
     hooks |-> <<>>, err |-> FALSE, renders |-> 0, storage |-> storage, depth |-> 0]

\* _patch(committed, incoming), once.
DoPatch ==
    /\ op.name = "none"
    /\ Commit(_patch(World, Document, Incoming), [NoOp EXCEPT !.name = "patch"], nodes)
    /\ UNCHANGED writes

NextPatch == DoPatch

SpecPatch == InitPatch /\ [][NextPatch]_vars

\* SpecMetadata: _patch applied to trees of elements that carry metadata.
\* A <p> has no Map, or the Map _prepareDirectives makes for an input
\* (dom.js:481-489, 501), or the Map _handleFor makes (dom.js:418-420).
MetaKinds == {"none", "inputs", "local"}

RECURSIVE PlainElements(_)
PlainElements(ts) ==
    \A i \in 1..Len(ts) :
        /\ ts[i].type = "element"
        /\ ts[i].attrs = NoAttrs
        /\ PlainElements(ts[i].kids)

ElementForests == {f \in Forests : PlainElements(f)}

\* Node n gets the Map of its kind, and the property an input sets.
Decorate(W, n, kind) ==
    IF kind = "inputs"
    THEN [AllocMeta(W, [MkMeta(TRUE, FALSE) EXCEPT !.inputs = {"count"}])
             EXCEPT !.nodes[n].meta = Len(W.metas) + 1,
                    !.nodes[n].props = [count |-> 1]]
    ELSE IF kind = "local"
    THEN [AllocMeta(W, [MkMeta(FALSE, TRUE) EXCEPT !.local = [x |-> 1]])
             EXCEPT !.nodes[n].meta = Len(W.metas) + 1]
    ELSE W

RECURSIVE Decorated(_, _, _)
Decorated(W, kinds, n) ==
    IF n > Len(W.nodes) THEN W
    ELSE Decorated(IF n \in DOMAIN kinds THEN Decorate(W, n, kinds[n]) ELSE W,
                   kinds, n + 1)

InitMetadata ==
    \E committed \in ElementForests, incoming \in ElementForests :
        LET W0 == ParseKids(ParseKids(createDocumentFragment(EmptyWorld),
                                      committed, Document),
                            incoming, Incoming)
            ps == {n \in 1..Len(W0.nodes) : W0.nodes[n].tag = "p"}
        IN  \E kinds \in [ps -> MetaKinds] :
                LET W == Decorated(W0, kinds, 1)
                IN  /\ nodes = W.nodes
                    /\ metas = W.metas
                    /\ ctrls = <<>>
                    /\ log = {}
                    /\ hooks = <<>>
                    /\ thrown = FALSE
                    /\ op = NoOp
                    /\ prev = W.nodes
                    /\ renders = 0
                    /\ writes = 0
                    /\ storage = NoState
                    /\ objs = <<>>
                    /\ steps = 1

SpecMetadata == InitMetadata /\ [][NextPatch]_vars

----------------------------------------------------------------------------
(* The expression evaluator (dom.js:188-225) over the expressions the      *)
(* modelled templates use.  A context is the controller's own properties:  *)
(* a function from property names to values.  Values are the numbers       *)
(* 0..MaxVal, Undef, and arrays of numbers (sequences).                    *)

\* String(v) as a template literal renders a number or undefined.
Str(v) ==
    IF v = Undef THEN "undefined"
    ELSE <<"0", "1", "2", "3", "4", "5", "6", "7", "8", "9">>[v + 1]

\* The `{{name}}` bindings after _templatizeBindings made them `${name}`.
TemplateVar ==
    [t \in {"${n}", "${s}", "${k}", "${x}", "${y}", "${isLoggedIn}"} |->
        CASE t = "${n}" -> "n" [] t = "${s}" -> "s" [] t = "${k}" -> "k"
          [] t = "${x}" -> "x" [] t = "${y}" -> "y"
          [] t = "${isLoggedIn}" -> "isLoggedIn"]

_templatizeBindings(text) ==
    CASE text = "{{n}}" -> "${n}" [] text = "{{s}}" -> "${s}"
      [] text = "{{k}}" -> "${k}" [] text = "{{x}}" -> "${x}"
      [] text = "{{y}}" -> "${y}"
      [] text = "{{isLoggedIn}}" -> "${isLoggedIn}" [] OTHER -> text

\* Evaluating the template literal raises when it names a variable the
\* context does not have (a ReferenceError inside with(this)).
TemplateRaises(template, context) ==
    template \in DOMAIN TemplateVar /\ TemplateVar[template] \notin DOMAIN context

\* _saferEvalTemplate: the interpolated string, '' when evaluation raised.
_saferEvalTemplate(template, context) ==
    IF template \notin DOMAIN TemplateVar THEN template
    ELSE IF TemplateRaises(template, context) THEN ""
    ELSE Str(context[TemplateVar[template]])

\* _saferEvalReturn on a bare name: its value, undefined when evaluation raised.
_saferEvalReturn(js, context) ==
    IF js \in DOMAIN context THEN context[js] ELSE Undef

\* JavaScript truthiness of a number or undefined.
Truthy(v) == v # Undef /\ v # 0

\* `<var> of <iterable>`: the variable is the text before the first space.
ForParts ==
    [e \in {"x of items", "y of items", "x of missing"} |->
        CASE e = "x of items" -> [variable |-> "x", iterable |-> "items"]
          [] e = "y of items" -> [variable |-> "y", iterable |-> "items"]
          [] e = "x of missing" -> [variable |-> "x", iterable |-> "missing"]]

\* The property names that hold arrays.
ArrayProps == {"items"}

----------------------------------------------------------------------------
(* The template compiler (dom.js:388-585).  The context is the controller  *)
(* object itself: a `for` adds its variable to it and deletes it again.    *)

Fields(W, c) == W.ctrls[c].fields

\* context[key] = value on a property that has no accessor.
CtxSet(W, c, key, value) ==
    [W EXCEPT !.ctrls[c].fields =
        [k \in DOMAIN @ \cup {key} |-> IF k = key THEN value ELSE @[k]]]

\* delete context[key]
CtxDelete(W, c, key) ==
    [W EXCEPT !.ctrls[c].fields = [k \in DOMAIN @ \ {key} |-> @[k]]]

Raise(W) == [W EXCEPT !.err = TRUE]

\* The element children of a node (Node.children).
Children(ns, n) == SelectSeq(ns[n].kids, LAMBDA k : ns[k].type = "element")

\* n and the elements below it, each before its descendants, in document order.
RECURSIVE ElementsFrom(_, _)
RECURSIVE ElementsOfList(_, _)
ElementsFrom(ns, n) == <<n>> \o ElementsOfList(ns, Children(ns, n))
ElementsOfList(ns, list) ==
    IF list = <<>> THEN <<>>
    ELSE ElementsFrom(ns, Head(list)) \o ElementsOfList(ns, Tail(list))

\* `${vnode.outerHTML}` inside the loop of _handleFor: the node's markup with
\* every binding in it interpolated in the loop's scope.
RECURSIVE OuterMarkup(_, _, _)
OuterMarkup(ns, n, scope) ==
    [type |-> ns[n].type, tag |-> ns[n].tag,
     text |-> _saferEvalTemplate(ns[n].text, scope),
     attrs |-> [a \in DOMAIN ns[n].attrs |-> _saferEvalTemplate(ns[n].attrs[a], scope)],
     kids |-> [i \in 1..Len(ns[n].kids) |-> OuterMarkup(ns, ns[n].kids[i], scope)]]

\* Some binding of the node's markup names a variable the scope lacks.
RECURSIVE MarkupRaises(_, _, _)
MarkupRaises(ns, n, scope) ==
    \/ TemplateRaises(ns[n].text, scope)
    \/ \E a \in DOMAIN ns[n].attrs : TemplateRaises(ns[n].attrs[a], scope)
    \/ \E i \in 1..Len(ns[n].kids) : MarkupRaises(ns, ns[n].kids[i], scope)

\* parent.replaceChild(fragment, old): the fragment's children take old's place.
replaceChildByFragment(W, p, frag, old) ==
    LET i    == IndexOf(W.nodes[p].kids, old)
        ks   == W.nodes[p].kids
        news == W.nodes[frag].kids
    IN  [W EXCEPT !.nodes =
            [n \in DOMAIN @ |->
                IF n = p THEN [@[n] EXCEPT !.kids = SubSeq(ks, 1, i - 1) \o news
                                                     \o SubSeq(ks, i + 1, Len(ks))]
                ELSE IF n = frag THEN [@[n] EXCEPT !.kids = <<>>]
                ELSE IF n = old THEN [@[n] EXCEPT !.parent = 0]
                ELSE IF n \in {news[k] : k \in 1..Len(news)}
                     THEN [@[n] EXCEPT !.parent = p]
                ELSE @[n]]]

\* node[IQ_SYM] = the Map allocated last.
SetMeta(W, el) == [W EXCEPT !.nodes[el].meta = Len(W.metas)]

\* if(!node[IQ_SYM]) node[IQ_SYM] = new Map() with the given containers.
EnsureMeta(W, el, meta) ==
    IF W.nodes[el].meta # 0 THEN W ELSE SetMeta(AllocMeta(W, meta), el)

\* Every element of the generated subtree gets its own Map holding the
\* local context {variable -> item} and nothing else (dom.js:415-422).
RECURSIVE AttachLocal(_, _, _, _)
AttachLocal(W, els, variable, item) ==
    IF els = <<>> THEN W
    ELSE AttachLocal(SetMeta(AllocMeta(W, [MkMeta(FALSE, TRUE) EXCEPT
                                              !.local = variable :> item]),
                             Head(els)),
                     Tail(els), variable, item)

removeAttribute(W, el, name) ==
    [W EXCEPT !.nodes[el].attrs = [a \in DOMAIN @ \ {name} |-> @[a]]]

RECURSIVE _evaluateTemplate(_, _, _)
RECURSIVE EvalStack(_, _, _)
RECURSIVE ForItems(_, _, _, _, _, _)

\* fragment.appendChild(container.firstElementChild)
AppendGenerated(W, container, fragment) ==
    IF Children(W.nodes, container) = <<>> THEN Raise(W)
    ELSE appendChild(W, fragment, Children(W.nodes, container)[1])

\* The end of one turn of the loop: delete context[variable], append the node.
ForItem_Append(W, c, variable, container, fragment) ==
    IF W.err THEN W
    ELSE AppendGenerated(CtxDelete(W, c, variable), container, fragment)

\* The generated node gets its local context and is evaluated in the loop's
\* scope, the directive removed from it.
ForItem_Evaluate(W, c, variable, item, container, fragment) ==
    LET generatedNode == Children(W.nodes, container)[1]
    IN  ForItem_Append(
            _evaluateTemplate(
                CtxSet(removeAttribute(AttachLocal(W, ElementsFrom(W.nodes, generatedNode),
                                                   variable, item),
                                       generatedNode, "data-iq.for"),
                       c, variable, item),
                generatedNode, c),
            c, variable, container, fragment)

\* One turn of vnodes.forEach in _handleFor: the clone's markup is parsed
\* into a new container.
ForItem(W, vnode, c, item, fragment) ==
    LET variable == ForParts[W.nodes[vnode].attrs["data-iq.for"]].variable
    IN  ForItem_Evaluate(
            ParseNode(Alloc(W, MkNode("element", "iq-container", "", NoAttrs)),
                      OuterMarkup(W.nodes, vnode, (variable :> item) @@ Fields(W, c)),
                      Len(W.nodes) + 1),
            c, variable, item, Len(W.nodes) + 1, fragment)

\* vnodes.forEach in _handleFor, for items[i..].
ForItems(W, vnode, c, items, i, fragment) ==
    IF W.err \/ i > Len(items) THEN W
    ELSE ForItems(ForItem(W, vnode, c, items[i], fragment),
                  vnode, c, items, i + 1, fragment)

\* An iteration that visits each distinct value once.
Iterate_Distinct(iterable) ==
    LET firsts == SelectSeq([i \in 1..Len(iterable) |-> <<i, iterable[i]>>],
                            LAMBDA q : \A j \in 1..(q[1] - 1) : iterable[j] # q[2])
    IN  [i \in 1..Len(firsts) |-> firsts[i][2]]

\* for(const <variable> of <iterable>) visits an array's items: all of them,
\* by ascending index.
Iterate(iterable) == [i \in 1..Len(iterable) |-> iterable[i]]

\* vnode.innerHTML = '' and the removal of its attributes (the modelled
\* templates put the directive alone on a `for` element).
ClearNode(W, vnode) ==
    [W EXCEPT !.nodes =
        [n \in DOMAIN @ |->
            IF n = vnode THEN [@[n] EXCEPT !.kids = <<>>, !.attrs = NoAttrs]
            ELSE IF @[n].parent = vnode THEN [@[n] EXCEPT !.parent = 0]
            ELSE @[n]]]

\* vnode.parentNode.replaceChild(fragment, vnode)
ReplaceCleared(W, vnode, fragment) ==
    IF W.nodes[vnode].parent = 0 THEN Raise(W)
    ELSE replaceChildByFragment(W, W.nodes[vnode].parent, fragment, vnode)

\* After the loop the original element is emptied and replaced by the clones.
ReplaceByClones(W, vnode, fragment) ==
    IF W.err THEN W ELSE ReplaceCleared(ClearNode(W, vnode), vnode, fragment)

\* The loop of _handleFor over the items and what follows it.
ForEach(W, vnode, c, items, variable) ==
    IF \E i \in 1..Len(items) :
          MarkupRaises(W.nodes, vnode, (variable :> items[i]) @@ Fields(W, c))
    THEN Raise(W)                          \* vnodes is undefined: forEach raises
    ELSE ReplaceByClones(ForItems(createDocumentFragment(W), vnode, c, items, 1,
                                  Len(W.nodes) + 1),
                         vnode, Len(W.nodes) + 1)

_handleFor(W, vnode, c) ==
    LET parts == ForParts[W.nodes[vnode].attrs["data-iq.for"]]
    IN  IF parts.iterable \in DOMAIN Fields(W, c) /\ parts.iterable \in ArrayProps
        THEN ForEach(W, vnode, c, Iterate(Fields(W, c)[parts.iterable]), parts.variable)
        ELSE Raise(W)                      \* the iterable cannot be evaluated

\* An `if` that removes the hidden node and leaves nothing in its place.
_handleIf_Remove(W, vnode, c) ==
    LET expression == IF "data-iq.if" \in DOMAIN W.nodes[vnode].attrs
                      THEN W.nodes[vnode].attrs["data-iq.if"] ELSE "undefined"
        show == _saferEvalReturn(expression, Fields(W, c))
    IN  IF Truthy(show) THEN W
        ELSE IF W.nodes[vnode].parent = 0 THEN Raise(W)
        ELSE removeChild(W, W.nodes[vnode].parent, vnode)

_handleIf(W, vnode, c) ==
    LET expression == IF "data-iq.if" \in DOMAIN W.nodes[vnode].attrs
                      THEN W.nodes[vnode].attrs["data-iq.if"] ELSE "undefined"
        show == _saferEvalReturn(expression, Fields(W, c))
        comment == Len(W.nodes) + 1
    IN  IF Truthy(show) THEN W
        ELSE IF W.nodes[vnode].parent = 0 THEN Raise(W)
        ELSE replaceChild(Alloc(W, MkNode("comment", "", "iq.if removed node", NoAttrs)),
                          W.nodes[vnode].parent, comment, vnode)

\* vnode[IQ_SYM].get(IQ_SYM_INPUTS).add(directive); vnode[directive] = value
SetInput(W, vnode, key, value) ==
    IF ~W.metas[W.nodes[vnode].meta].hasInputs
    THEN Raise(W)                          \* get(IQ_SYM_INPUTS) is undefined
    ELSE [W EXCEPT !.metas[W.nodes[vnode].meta].inputs = @ \cup {key},
                   !.nodes[vnode].props =
                       [k \in DOMAIN @ \cup {key} |-> IF k = key THEN value ELSE @[k]]]

\* An input: a directive-shaped attribute that is not a known directive.
HandleInput(W, vnode, c, attr) ==
    SetInput(EnsureMeta(W, vnode, MkMeta(TRUE, FALSE)), vnode, DirectiveOf[attr],
             _saferEvalReturn(IF attr \in DOMAIN W.nodes[vnode].attrs
                              THEN W.nodes[vnode].attrs[attr] ELSE "undefined",
                              Fields(W, c)))

\* The dataset keys are visited in attribute order; the modelled templates
\* write `for` or `if` first and inputs after them, and put at most one of
\* `for` and `if` on an element.
DirectiveOrder == <<"data-iq.for", "data-iq.if", "data-iq.count">>

\* The body of the forEach of _prepareDirectives for one dataset key.
Directive(W, vnode, c, d) ==
    IF DirectiveOf[d] \notin IQ_DIRECTIVES THEN HandleInput(W, vnode, c, d)
    ELSE IF DirectiveOf[d] = "for" THEN _handleFor(W, vnode, c)
    ELSE _handleIf(W, vnode, c)

RECURSIVE DirectivesFrom(_, _, _, _)
DirectivesFrom(W, vnode, c, keys) ==
    IF W.err \/ keys = <<>> THEN W
    ELSE DirectivesFrom(Directive(W, vnode, c, Head(keys)), vnode, c, Tail(keys))

_prepareDirectives(W, vnode, c) ==
    DirectivesFrom(W, vnode, c,
        SelectSeq(DirectiveOrder, LAMBDA d : d \in DOMAIN W.nodes[vnode].attrs))

\* One turn of the attribute loop: rewrite the attribute if interpolation
\* changes its value.
EvalAttribute(W, node, c, a) ==
    IF W.nodes[node].attrs[a] = _saferEvalTemplate(W.nodes[node].attrs[a], Fields(W, c))
    THEN W
    ELSE setAttribute(W, node, a,
                      _saferEvalTemplate(W.nodes[node].attrs[a], Fields(W, c)))

\* The attribute pass of _evaluateTemplate.
RECURSIVE EvalAttributes(_, _, _, _)
EvalAttributes(W, node, c, names) ==
    IF names = {} THEN W
    ELSE EvalAttributes(EvalAttribute(W, node, c, CHOOSE x \in names : TRUE),
                        node, c, names \ {CHOOSE x \in names : TRUE})

\* The attribute that binds a click: dataset keys that start with IQ_EVENT.
IQ_EVENT == {"data-iq:click"}

\* vnode.addEventListener(eventType, event => _callIqEvent(e, event, vnode,
\* context)): the listener keeps the node and the controller.
_prepareEvents(W, vnode, c) ==
    IF W.err \/ DOMAIN W.nodes[vnode].attrs \cap IQ_EVENT = {} THEN W
    ELSE [W EXCEPT !.nodes[vnode].listeners = Append(@, c)]

\* An element after _prepareDirectives: its attributes are interpolated.
EvalElement(W, node, c) ==
    IF W.err THEN W
    ELSE EvalAttributes(W, node, c, DOMAIN W.nodes[node].attrs \ IQ_DIRECTIVE)

\* The node popped from the stack is processed according to its type.
EvalNode(W, node, c) ==
    IF W.nodes[node].type = "text"
    THEN [W EXCEPT !.nodes[node].text = _saferEvalTemplate(@, Fields(W, c))]
    ELSE IF W.nodes[node].type = "element"
    THEN EvalElement(_prepareEvents(_prepareDirectives(W, node, c), node, c), node, c)
    ELSE W

\* iterator.push(...node.childNodes)
EvalPush(W, node, rest, c) == EvalStack(W, rest \o W.nodes[node].kids, c)

\* One turn of the while loop of _evaluateTemplate: pop, process, push children.
EvalStack(W, stack, c) ==
    IF W.err \/ stack = <<>> THEN W
    ELSE EvalPush(EvalNode(W, stack[Len(stack)], c), stack[Len(stack)],
                  SubSeq(stack, 1, Len(stack) - 1), c)

_evaluateTemplate(W, vnode, c) == EvalStack(W, <<vnode>>, c)

----------------------------------------------------------------------------
(* The component classes of the modelled page.                             *)

\* tagName.indexOf('-') !== -1
HasDash(tag) ==
    tag \in {"app-root", "child-comp", "side-bar", "list-view", "bad-list", "login-view",
             "pick-list", "grid-view", "row-list", "wrap-view", "auth-gate", "no-class",
             "iq-container"}

_toPascalCase(str) ==
    CASE str = "app-root" -> "AppRoot"
      [] str = "child-comp" -> "ChildComp"
      [] str = "side-bar" -> "SideBar"
      [] str = "list-view" -> "ListView"
      [] str = "bad-list" -> "BadList"
      [] str = "login-view" -> "LoginView"
      [] str = "pick-list" -> "PickList"
      [] str = "grid-view" -> "GridView"
      [] str = "row-list" -> "RowList"
      [] str = "wrap-view" -> "WrapView"
      [] str = "auth-gate" -> "AuthGate"
      [] str = "no-class" -> "NoClass"
      [] OTHER -> "IqContainer"

\* The classes the page's scripts declare; <no-class> names none of them.
Declared ==
    {"AppRoot", "ChildComp", "SideBar", "ListView", "BadList", "LoginView", "PickList",
     "GridView", "RowList", "WrapView", "AuthGate"}

\* The properties a constructor sets.
InitialFields(cls) ==
    CASE cls = "AppRoot" -> [n |-> 0]
      [] cls = "ChildComp" -> [s |-> 1]
      [] cls = "SideBar" -> [k |-> 0]
      [] cls = "ListView" -> [items |-> <<1>>, show |-> 1]
      [] cls = "BadList" -> [k |-> 0]
      [] cls = "PickList" -> [items |-> <<1>>]
      [] cls = "GridView" -> [items |-> <<1>>]
      [] cls = "RowList" -> [items |-> <<1>>]
      [] cls = "WrapView" -> [k |-> 0]
      [] cls = "AuthGate" -> NoProps

\* APP_STATE.get(key)
APP_STATE_get(W, key) == W.storage[key]

\* The properties an instance has when its constructor returns: LoginView's
\* constructor reads the global state, this.isLoggedIn = appState.get(...).
ConstructedFields(W, cls) ==
    IF cls = "LoginView" THEN [isLoggedIn |-> APP_STATE_get(W, "isLoggedIn")]
    ELSE InitialFields(cls)

\* this.$iq.template, as markup.
TemplateOf(cls) ==
    CASE cls = "AppRoot" ->
            <<El("p", NoAttrs, <<Txt("{{n}}")>>),
              El("child-comp", "data-iq.count" :> "n", <<>>)>>
      [] cls = "ChildComp" ->
            <<El("p", ("data-iq.if" :> "s") @@ ("class" :> "c"), <<Txt("{{s}}")>>)>>
      [] cls = "SideBar" ->
            <<El("p", NoAttrs, <<Txt("{{k}}")>>)>>
      [] cls = "ListView" ->
            <<El("ul", NoAttrs,
                 <<El("li", "data-iq.for" :> "x of items", <<Txt("{{x}}")>>)>>),
              El("i", "data-iq.if" :> "show", <<Txt("on")>>),
              El("b", NoAttrs, <<Txt("after")>>)>>
      [] cls = "LoginView" ->
            <<El("p", NoAttrs, <<Txt("{{isLoggedIn}}")>>)>>
      [] cls = "PickList" ->
            <<El("ul", NoAttrs,
                 <<El("li", "data-iq.for" :> "x of items",
                      <<El("a", "data-iq:click" :> "pick(x)", <<Txt("{{x}}")>>)>>)>>),
              El("b", "data-iq:click" :> "pick(x)", <<Txt("after")>>)>>
      [] cls = "GridView" ->
            <<El("ul", NoAttrs,
                 <<El("li", "data-iq.for" :> "x of items",
                      <<El("b", "data-iq.for" :> "y of items",
                           <<El("a", "data-iq:click" :> "pick(x, y)",
                                <<Txt("{{x}}")>>)>>)>>)>>)>>
      [] cls = "RowList" ->
            <<El("ul", NoAttrs,
                 <<El("li", "data-iq.for" :> "x of items",
                      <<El("b", "data-iq.count" :> "x", <<Txt("{{x}}")>>)>>)>>)>>
      [] cls = "WrapView" ->
            <<El("div", NoAttrs, <<El("side-bar", NoAttrs, <<>>)>>)>>
      [] cls = "AuthGate" -> <<>>
      [] cls = "BadList" ->
            <<El("p", NoAttrs, <<Txt("{{y}}")>>),
              El("ul", NoAttrs,
                 <<El("li", "data-iq.for" :> "x of missing", <<Txt("{{x}}")>>)>>)>>

\* _templatizeBindings over a whole template.
RECURSIVE Templatized(_)
Templatized(ts) ==
    [i \in 1..Len(ts) |->
        [ts[i] EXCEPT !.text = _templatizeBindings(@),
                      !.attrs = [a \in DOMAIN @ |-> _templatizeBindings(@[a])],
                      !.kids = Templatized(@)]]

----------------------------------------------------------------------------
(* The observer (dom.js:278-344).                                          *)

\* An observer that also intercepts the properties holding undefined.
Intercepted_All(fields) == DOMAIN fields

\* The properties _observe puts an accessor on: every own property whose
\* value differs from what the (still empty) shadow store holds for it, so
\* not a property that holds undefined.
Intercepted(fields) ==
    {q \in DOMAIN fields : q \in ArrayProps \/ fields[q] # Undef}

_observe(W, c) ==
    [W EXCEPT !.ctrls[c].observed = @ \cup Intercepted(W.ctrls[c].fields)]

----------------------------------------------------------------------------
(* The component loader (dom.js:662-753).                                  *)

RECURSIVE Load(_, _, _, _)
RECURSIVE LoadEach(_, _, _, _)
RECURSIVE LoadChildElements(_, _)
RECURSIVE LoadChildren(_, _)

\* compEl[IQ_SYM].get(IQ_SYM_CTRL): 0 when the element has no controller.
ControllerOf(W, el) ==
    IF W.nodes[el].meta = 0 THEN 0 ELSE W.metas[W.nodes[el].meta].ctrl

\* maybeCtrl = new <class>(inject): the instance gets the next identity.
NewController(W, className, compEl) ==
    [W EXCEPT !.ctrls = Append(@, [cls |-> className, el |-> compEl,
                                   fields |-> ConstructedFields(W, className),
                                   observed |-> {}])]

\* APP_STATE.update(key, value)
APP_STATE_update(W, key, value) ==
    Load([W EXCEPT !.storage[key] = value], Document, 0, TRUE)

\* APP_STATE.delete(key)
APP_STATE_delete(W, key) ==
    Load([W EXCEPT !.storage[key] = Undef], Document, 0, TRUE)

\* The classes whose constructor writes the global state before it returns:
\* constructor({ appState }) { appState.update('isLoggedIn', true); }
UpdatesInConstructor == {"AuthGate"}

\* The body of the constructor, run on the instance `new` has allocated.  A
\* call nested deeper than the call stack has room for raises a RangeError,
\* which _saferInstantiateComponent rethrows (dom.js:257-263).
Construct(W, className) ==
    IF className \notin UpdatesInConstructor THEN W
    ELSE IF W.depth >= StackLimit THEN Raise(W)
    ELSE [APP_STATE_update([W EXCEPT !.depth = @ + 1], "isLoggedIn", 1)
             EXCEPT !.depth = W.depth]

\* An instantiation that leaves the parent's inputs on the element.
SetInputs_None(W, c, compEl, inputs) == W

\* Set inputs from the parent onto the controller: ctrl[key] = compEl[key].
SetInputs(W, c, compEl, inputs) ==
    [W EXCEPT !.ctrls[c].fields =
        [k \in DOMAIN @ \cup inputs |->
            IF k \in inputs THEN PropOf(W.nodes[compEl], k) ELSE @[k]]]

\* compEl[IQ_SYM].set(IQ_SYM_CTRL, ctrl)
SetController(W, compEl, c) == [W EXCEPT !.metas[W.nodes[compEl].meta].ctrl = c]

\* The steps of Load that follow the instantiation on first discovery.
Instantiate_Finish(W, compEl, c) ==
    IF W.err THEN W
    ELSE IF ~W.metas[W.nodes[compEl].meta].hasInputs THEN Raise(W)
    ELSE _observe(SetController(SetInputs(W, c, compEl,
                                          W.metas[W.nodes[compEl].meta].inputs),
                                compEl, c),
                  c)

\* new <class>(inject): the instance is allocated, then its constructor runs.
Instantiate(W, compEl) ==
    IF _toPascalCase(W.nodes[compEl].tag) \notin Declared THEN Raise(W)
    ELSE Instantiate_Finish(
            Construct(NewController(W, _toPascalCase(W.nodes[compEl].tag), compEl),
                      _toPascalCase(W.nodes[compEl].tag)),
            compEl, Len(W.ctrls) + 1)

\* A loader that calls $iqOnMount in every cycle.
FireHooks_EveryCycle(W, ctrl, onMount) ==
    [W EXCEPT !.hooks = @ \o <<[ctrl |-> ctrl, hook |-> "$iqOnChange"],
                               [ctrl |-> ctrl, hook |-> "$iqOnMount"]>>]

\* ctrl.$iqOnChange(), and ctrl.$iqOnMount() on the initial call.
FireHooks(W, ctrl, onMount) ==
    [W EXCEPT !.hooks = @ \o <<[ctrl |-> ctrl, hook |-> "$iqOnChange"]>>
                          \o IF onMount THEN <<[ctrl |-> ctrl, hook |-> "$iqOnMount"]>>
                             ELSE <<>>]

\* _patch(compEl, stub) on the host element; the call is recorded in the
\* sequence of calls that also holds the hooks.
PatchHost(W, compEl, stub, ctrl) ==
    [_patch(W, compEl, stub) EXCEPT !.hooks = @ \o <<[ctrl |-> ctrl, hook |-> "_patch"]>>]

\* if(shouldPatch): patch the actual DOM and call the hooks.
LoadOne_Commit(W, compEl, stub, shouldPatch, ctrl, onMount) ==
    IF W.err \/ ~shouldPatch THEN W
    ELSE FireHooks(PatchHost(W, compEl, stub, ctrl), ctrl, onMount)

\* _patch(stub, v), then Load on each child element of the stub.
LoadOne_Patch(W, compEl, stub, shouldPatch, ctrl, onMount, v) ==
    IF W.err THEN W
    ELSE LoadOne_Commit(LoadChildren(_patch(W, stub, v), stub),
                        compEl, stub, shouldPatch, ctrl, onMount)

\* The template is parsed into the fragment v and evaluated.
LoadOne_Render(W, compEl, stub, shouldPatch, onMount) ==
    IF W.err THEN W
    ELSE LoadOne_Patch(
            _evaluateTemplate(
                ParseKids(createDocumentFragment(W),
                          Templatized(TemplateOf(W.ctrls[ControllerOf(W, compEl)].cls)),
                          Len(W.nodes) + 1),
                Len(W.nodes) + 1, ControllerOf(W, compEl)),
            compEl, stub, shouldPatch, ControllerOf(W, compEl), onMount,
            Len(W.nodes) + 1)

\* The controller is taken from the metadata, or instantiated.
LoadOne_Controller(W, compEl, stub, shouldPatch) ==
    LoadOne_Render(IF ControllerOf(W, compEl) = 0 THEN Instantiate(W, compEl) ELSE W,
                   compEl, stub, shouldPatch, ControllerOf(W, compEl) = 0)

\* The body of iqComp.forEach for one component element.
LoadOne(W, compEl, stub, shouldPatch) ==
    LoadOne_Controller(EnsureMeta(W, compEl, MkMeta(TRUE, TRUE)),
                       compEl, stub, shouldPatch)

\* Load(childElement, childElement, false) for each child element of the stub.
LoadChildElements(W, children) ==
    IF W.err \/ children = <<>> THEN W
    ELSE LoadChildElements(Load(W, Head(children), Head(children), FALSE),
                           Tail(children))

LoadChildren(W, stub) == LoadChildElements(W, Children(W.nodes, stub))

LoadEach(W, iqComp, stub, shouldPatch) ==
    IF W.err \/ iqComp = <<>> THEN W
    ELSE LoadEach(LoadOne(W, Head(iqComp), stub, shouldPatch),
                  Tail(iqComp), stub, shouldPatch)

\* allElements filtered by tagName.indexOf('-') !== -1: the descendants in
\* document order, then the root.
ComponentsOf(ns, root) ==
    SelectSeq(Tail(ElementsFrom(ns, root)) \o <<root>>, LAMBDA el : HasDash(ns[el].tag))

\* Load(root, stub, shouldPatch); stub = 0 stands for the default argument,
\* a new DocumentFragment made once per call.
Load(W, root, stub, shouldPatch) ==
    LoadEach(IF stub = 0 THEN createDocumentFragment(W) ELSE W,
             ComponentsOf(W.nodes, root),
             IF stub = 0 THEN Len(W.nodes) + 1 ELSE stub,
             shouldPatch)

----------------------------------------------------------------------------
(* Spec: a page of components.  The operations are the page-ready Load of  *)
(* document.body (dom.js:66-68; APP_STATE.update and delete make the same  *)
(* call), a script's assignment to a controller property, and a script's   *)
(* call of iqwerty.dom.Load on a component element.                        *)

\* A detector that loads the whole document.
Rerender_Document(W, c) == Load([W EXCEPT !.renders = @ + 1], Document, 0, TRUE)

\* action(): detector.ComponentShouldChange() -> Load(compEl)
Rerender(W, c) == Load([W EXCEPT !.renders = @ + 1], W.ctrls[c].el, 0, TRUE)

\* An accessor that does not compare the new value with the old one.
Assign_NoCompare(W, c, prop, value) ==
    IF prop \notin W.ctrls[c].observed THEN CtxSet(W, c, prop, value)
    ELSE Rerender(CtxSet(W, c, prop, value), c)

\* The set(value) accessor _observe installs, or a plain assignment when
\* the property has no accessor.  An array literal is a new object, never
\* identical to the stored one.
Assign(W, c, prop, value) ==
    IF prop \notin W.ctrls[c].observed THEN CtxSet(W, c, prop, value)
    ELSE IF prop \notin ArrayProps /\ value = W.ctrls[c].fields[prop] THEN W
    ELSE Rerender(CtxSet(W, c, prop, value), c)

\* The values a script may assign to a property.
Numbers == 0..MaxVal

\* Array items are drawn from two values: enough for arrays with repeated
\* items and for arrays that are not sorted.
ItemValues == {0, 1}

Arrays == UNION {[1..len -> ItemValues] : len \in 0..MaxItems}

ValuesFor(prop) == IF prop \in ArrayProps THEN Arrays ELSE Numbers

\* The properties a script adds to an instance after it was constructed:
\* PickList's pick(item) is given a property x to keep its choice in.
ScriptProps(cls) == IF cls = "PickList" THEN {"x"} ELSE {}

\* delete context[key]: the property goes, with its accessor if it had one.
DeleteKey(W, c, key) ==
    [CtxDelete(W, c, key) EXCEPT !.ctrls[c].observed = @ \ {key}]

\* The event object handed to a listener.
IqEvent == 1

\* The local context of a node, node[IQ_SYM].get(IQ_SYM_LOCAL_CXT); no key
\* when the node has no metadata or no local context.
LocalContext(W, node) ==
    IF W.nodes[node].meta # 0 /\ W.metas[W.nodes[node].meta].hasLocal
    THEN W.metas[W.nodes[node].meta].local
    ELSE NoProps

\* context[key] = value for each entry of the local context.
RECURSIVE AddLocals(_, _, _, _)
AddLocals(W, c, local, keys) ==
    IF W.err \/ keys = {} THEN W
    ELSE AddLocals(Assign(W, c, CHOOSE k \in keys : TRUE,
                          local[CHOOSE k \in keys : TRUE]),
                   c, local, keys \ {CHOOSE k \in keys : TRUE})

\* delete context[key] for each key of the local context.
RECURSIVE DeleteLocals(_, _, _)
DeleteLocals(W, c, keys) ==
    IF keys = {} THEN W
    ELSE DeleteLocals(DeleteKey(W, c, CHOOSE k \in keys : TRUE),
                      c, keys \ {CHOOSE k \in keys : TRUE})

\* _saferEval(node.dataset[label], context) on `pick(x)`: the method assigns
\* nothing, and the ReferenceError for an unknown x is caught.
EvalHandler(W, node, c) == W

\* The end of _callIqEvent: the local keys and $iqEvent are deleted.
CallIqEvent_Cleanup(W, node, c) ==
    IF W.err THEN W
    ELSE DeleteKey(DeleteLocals(W, c, DOMAIN LocalContext(W, node)), c, "$iqEvent")

\* The handler runs with the local context and $iqEvent on the controller.
CallIqEvent_Evaluate(W, node, c) ==
    IF W.err THEN W
    ELSE CallIqEvent_Cleanup(EvalHandler(Assign(W, c, "$iqEvent", IqEvent), node, c),
                             node, c)

_callIqEvent(W, node, c) ==
    CallIqEvent_Evaluate(AddLocals(W, c, LocalContext(W, node),
                                   DOMAIN LocalContext(W, node)),
                         node, c)

\* The listeners of a node, in the order they were added.
RECURSIVE Dispatch(_, _, _)
Dispatch(W, node, listeners) ==
    IF W.err \/ listeners = <<>> THEN W
    ELSE Dispatch(_callIqEvent(W, node, Head(listeners)), node, Tail(listeners))

\* The component elements that are in the document.
AttachedComponents ==
    {el \in 1..Len(nodes) :
        nodes[el].type = "element" /\ HasDash(nodes[el].tag) /\ Attached(nodes, el)}

\* The static markup of the page: the host elements under document.body.
Pages == {<<El("app-root", NoAttrs, <<>>)>>}

\* Pages with several host elements; one names a class that is not declared,
\* one has a template whose `for` cannot be evaluated.
SiblingPages ==
    {<<El("app-root", NoAttrs, <<>>), El("side-bar", NoAttrs, <<>>)>>,
     <<El("app-root", NoAttrs, <<>>), El("no-class", NoAttrs, <<>>),
       El("side-bar", NoAttrs, <<>>)>>,
     <<El("side-bar", NoAttrs, <<>>), El("bad-list", NoAttrs, <<>>)>>}

DirectivePages == {<<El("list-view", NoAttrs, <<>>)>>}

InitWith(pages, bound) ==
    \E page \in pages :
        /\ nodes = ParseKids(EmptyWorld, page, Document).nodes
        /\ metas = <<>>
        /\ ctrls = <<>>
        /\ log = {}
        /\ hooks = <<>>
        /\ thrown = FALSE
        /\ op = NoOp
        /\ prev = nodes
        /\ renders = 0
        /\ writes = 0
        /\ steps = bound
        /\ storage = NoState
        /\ objs = <<>>

Init == InitWith(Pages, MaxSteps)

\* iqwerty.dom.Load(document.body)
LoadDocument ==
    /\ steps > 0
    /\ Commit(Load(World, Document, 0, TRUE), [NoOp EXCEPT !.name = "loadDocument"], nodes)
    /\ UNCHANGED writes

\* iqwerty.dom.Load(el) on a component element of the document.
LoadElement ==
    /\ steps > 0
    /\ \E el \in AttachedComponents :
          Commit(Load(World, el, 0, TRUE),
                 [NoOp EXCEPT !.name = "loadElement", !.el = el,
                              !.mounted = ControllerOf(World, el) # 0,
                              !.twice = /\ op.name = "loadElement"
                                        /\ op.el = el
                                        /\ op.mounted], nodes)
    /\ UNCHANGED writes

\* controller.prop = value
Write ==
    /\ steps > 0
    /\ \E c \in 1..Len(ctrls) :
         \E prop \in DOMAIN ctrls[c].fields \cup ScriptProps(ctrls[c].cls) :
           \E value \in ValuesFor(prop) :
             LET W == Assign(World, c, prop, value)
                 changed == \/ prop \in ArrayProps
                            \/ prop \notin DOMAIN ctrls[c].fields
                            \/ value # ctrls[c].fields[prop]
                 counted == changed /\ prop \in ctrls[c].observed
             IN  /\ Commit(W, [NoOp EXCEPT !.name = "write", !.el = ctrls[c].el,
                                           !.ctrl = c, !.field = prop,
                                           !.changed = counted,
                                           !.rendered = W.renders], nodes)
                 /\ writes' = IF counted THEN writes + 1 ELSE writes

Next == LoadDocument \/ LoadElement \/ Write

Spec == Init /\ [][Next]_vars

\* The same operations on pages with several host elements.
InitSiblings == InitWith(SiblingPages, MaxSiblingSteps)

SpecSiblings == InitSiblings /\ [][Next]_vars

\* The same operations on a page whose component uses `for` and `if`.
InitDirectives == InitWith(DirectivePages, MaxDirectiveSteps)

SpecDirectives == InitDirectives /\ [][Next]_vars

\* A page whose component binds click events.
EventPages == {<<El("pick-list", NoAttrs, <<>>)>>}

InitEvents == InitWith(EventPages, MaxEventSteps)

\* The user clicks an element of the document that has a listener.
Fire ==
    /\ steps > 0
    /\ \E node \in 1..Len(nodes) :
          /\ Attached(nodes, node)
          /\ nodes[node].listeners # <<>>
          /\ Commit(Dispatch(World, node, nodes[node].listeners),
                    [NoOp EXCEPT !.name = "click", !.el = node,
                                 !.ctrl = Head(nodes[node].listeners)], nodes)
    /\ UNCHANGED writes

NextEvents == LoadDocument \/ LoadElement \/ Write \/ Fire

SpecEvents == InitEvents /\ [][NextEvents]_vars

\* Pages whose components nest a `for` in a `for`, put an input on a node a
\* `for` generates, and declare a component inside a plain element.
NestedPages ==
    {<<El("grid-view", NoAttrs, <<>>)>>,
     <<El("row-list", NoAttrs, <<>>)>>,
     <<El("wrap-view", NoAttrs, <<>>)>>}

InitNested == InitWith(NestedPages, MaxNestedSteps)

SpecNested == InitNested /\ [][NextEvents]_vars

\* Pages of two independent components: two that show the global state, and
\* one that shows it after a component with a different template.
StatePages ==
    {<<El("login-view", NoAttrs, <<>>), El("login-view", NoAttrs, <<>>)>>,
     <<El("child-comp", NoAttrs, <<>>), El("login-view", NoAttrs, <<>>)>>}

InitState == InitWith(StatePages, MaxStateSteps)

\* Some component is mounted, so some script holds the injected appState.
SomeMounted == \E el \in AttachedComponents : ControllerOf(World, el) # 0

\* A mounted component calls appState.update(key, value).
Update ==
    /\ steps > 0
    /\ SomeMounted
    /\ \E key \in StateKeys, value \in Numbers :
          Commit(APP_STATE_update(World, key, value),
                 [NoOp EXCEPT !.name = "update", !.field = key], nodes)
    /\ UNCHANGED writes

\* A mounted component calls appState.delete(key).
Delete ==
    /\ steps > 0
    /\ SomeMounted
    /\ \E key \in StateKeys :
          Commit(APP_STATE_delete(World, key),
                 [NoOp EXCEPT !.name = "delete", !.field = key], nodes)
    /\ UNCHANGED writes

NextState == LoadDocument \/ LoadElement \/ Update \/ Delete

SpecState == InitState /\ [][NextState]_vars

\* A page with a component whose constructor writes the global state.
ConstructorPages == {<<El("side-bar", NoAttrs, <<>>), El("auth-gate", NoAttrs, <<>>)>>}

InitConstructor == InitWith(ConstructorPages, MaxConstructorSteps)

SpecConstructor == InitConstructor /\ [][Next]_vars

----------------------------------------------------------------------------
(* The observer on a graph of objects (dom.js:278-371).  SpecObserver hands *)
(* _observe a target object whose properties hold numbers, undefined, null, *)
(* plain objects and containers, with a callback that is counted in        *)
(* `renders`; scripts then assign properties and call mutating methods.    *)

\* The values of the graph.
Num(n) == [t |-> "number", v |-> n]

Undefined == [t |-> "undefined", v |-> 0]

Null == [t |-> "null", v |-> 0]

Ref(o) == [t |-> "ref", v |-> o]

\* typeof value (typeof null is 'object')
TypeOf(value) == IF value.t \in {"null", "ref"} THEN "object" ELSE value.t

\* The mutating methods of each registered class.
MUTATORS ==
    [Array |-> {"copyWithin", "fill", "pop", "push", "reverse", "shift", "sort",
                "splice", "unshift"},
     Map |-> {"clear", "delete", "set"},
     Set |-> {"add", "clear", "delete"}]

\* The property names of the graph: a, b of the target, x of a plain object,
\* and the indices of an array.
PropertyNames == {"a", "b", "x", "0", "1"}

IndexKeys == <<"0", "1">>

\* An object: its constructor's name, Object.keys(obj), the value each key
\* reads as, the shadow store obj[IQ_SYM] (undefined where it has no entry),
\* the keys that have the accessor, how many wrappers its mutating methods
\* have, and the entries of a Map.
MkObject(klass, keys, val) ==
    [klass |-> klass, keys |-> keys,
     val |-> [q \in PropertyNames |-> IF q \in DOMAIN val THEN val[q] ELSE Undefined],
     shadow |-> [q \in PropertyNames |-> Undefined],
     acc |-> {}, wraps |-> 0, entries |-> <<>>]

\* The graph as the operators thread it: the heap, the calls of the
\* callback, and whether a TypeError was raised.
Graph == [objs |-> objs, calls |-> 0, err |-> FALSE]

\* action()
Action(H) == [H EXCEPT !.calls = @ + 1]

Fail(H) == [H EXCEPT !.err = TRUE]

\* _patchObjectMutators(obj, action): obj.constructor raises on null and
\* undefined; each registered method of a container gets one more wrapper.
_patchObjectMutators(H, value) ==
    IF value.t \in {"undefined", "null"} THEN Fail(H)
    ELSE IF value.t = "ref" /\ H.objs[value.v].klass \in DOMAIN MUTATORS
    THEN [H EXCEPT !.objs[value.v].wraps = @ + 1]
    ELSE H

RECURSIVE ObserveObject(_, _)
RECURSIVE ObserveKeys(_, _, _)

\* obj[IQ_SYM][prop] = obj[prop]; Object.defineProperty(obj, prop, {get, set})
Intercept(H, o, prop) ==
    [H EXCEPT !.objs[o].shadow[prop] = H.objs[o].val[prop],
              !.objs[o].acc = @ \cup {prop}]

\* if(obj[prop] != null) _patchObjectMutators(obj[prop], action)
PatchChild(H, value) ==
    IF value.t \in {"undefined", "null"} THEN H ELSE _patchObjectMutators(H, value)

\* if(typeof obj[prop] === 'object') _observe(obj[prop], action): on null the
\* read of obj[IQ_SYM] raises.
ObserveChild(H, value) ==
    IF H.err \/ TypeOf(value) # "object" THEN H
    ELSE IF value.t = "null" THEN Fail(H)
    ELSE ObserveObject(H, value.v)

\* The body of Object.keys(obj).forEach in _observe: a property that reads as
\* what the shadow store holds for it is skipped.
ObserveProp(H, o, prop) ==
    IF H.objs[o].shadow[prop] = H.objs[o].val[prop] THEN H
    ELSE ObserveChild(PatchChild(Intercept(H, o, prop), H.objs[o].val[prop]),
                      H.objs[o].val[prop])

ObserveKeys(H, o, keys) ==
    IF H.err \/ keys = <<>> THEN H
    ELSE ObserveKeys(ObserveProp(H, o, Head(keys)), o, Tail(keys))

\* _observe(obj, action)
ObserveObject(H, o) == ObserveKeys(H, o, H.objs[o].keys)

\* The value reaches the property and, behind an accessor, the shadow store.
Store(H, o, prop, value) ==
    [H EXCEPT !.objs[o].val[prop] = value,
              !.objs[o].shadow[prop] = IF prop \in H.objs[o].acc THEN value ELSE @]

\* obj[prop] = value: the accessor's set(value) where there is one.
SetProperty(H, o, prop, value) ==
    IF prop \notin H.objs[o].acc THEN Store(H, o, prop, value)
    ELSE IF value = H.objs[o].shadow[prop] THEN H
    ELSE _patchObjectMutators(Action(Store(H, o, prop, value)), value)

\* The native method: array.push(arg) makes the next index, map.set(key, arg)
\* makes an entry and no property.
CallOriginal(H, o, arg) ==
    IF H.objs[o].klass = "Array"
    THEN [H EXCEPT !.objs[o].keys = Append(@, IndexKeys[Len(@) + 1]),
                   !.objs[o].val[IndexKeys[Len(H.objs[o].keys) + 1]] = arg]
    ELSE [H EXCEPT !.objs[o].entries = Append(@, arg)]

\* Each wrapper, from the innermost: action(); _observe(obj, action).
RECURSIVE Wrappers(_, _, _)
Wrappers(H, o, depth) ==
    IF H.err \/ depth = 0 THEN H
    ELSE Wrappers(ObserveObject(Action(H), o), o, depth - 1)

\* obj.push(arg) or obj.set(key, arg) through the wrappers the object has.
CallMutator(H, o, arg) == Wrappers(CallOriginal(H, o, arg), o, H.objs[o].wraps)

\* The object handed to _observe.
Target == 1

\* The values a property of the target may hold when it is observed.
InitialValues == {Num(0), Undefined, Null, Ref(2), Ref(3), Ref(4)}

\* The objects of the graph: the target, a plain object, an array, a Map,
\* and a plain object no property holds yet.
InitialObjects(a, b) ==
    <<MkObject("Object", <<"a", "b">>, [a |-> a, b |-> b]),
      MkObject("Object", <<"x">>, [x |-> Num(0)]),
      MkObject("Array", <<>>, <<>>),
      MkObject("Map", <<>>, <<>>),
      MkObject("Object", <<"x">>, [x |-> Num(0)])>>

\* The values a script assigns or passes to a method.
GraphValues ==
    {Num(0), Num(1), Undefined, Null} \cup {Ref(o) : o \in 2..5}

InitObserver ==
    \E a \in InitialValues, b \in InitialValues :
        /\ objs = InitialObjects(a, b)
        /\ nodes = EmptyWorld.nodes
        /\ metas = <<>>
        /\ ctrls = <<>>
        /\ log = {}
        /\ hooks = <<>>
        /\ thrown = FALSE
        /\ op = NoOp
        /\ prev = nodes
        /\ renders = 0
        /\ writes = 0
        /\ steps = MaxObserverSteps
        /\ storage = NoState

\* The graph after a call; `renders` counts the calls of the callback.
CommitGraph(H, o) ==
    /\ objs' = H.objs
    /\ renders' = renders + H.calls
    /\ thrown' = H.err
    /\ op' = o
    /\ steps' = steps - 1
    /\ UNCHANGED <<nodes, metas, ctrls, log, hooks, prev, writes, storage>>

\* _observe(target, action)
Observe ==
    /\ steps > 0
    /\ op.name = "none"
    /\ CommitGraph(ObserveObject(Graph, Target), [NoOp EXCEPT !.name = "observe"])

\* A script assigns a property of the target or of a plain object; a script
\* ends with the first error it does not catch.
SetField ==
    /\ steps > 0
    /\ op.name # "none"
    /\ ~thrown
    /\ \E o \in 1..Len(objs) :
         /\ objs[o].klass = "Object"
         /\ \E i \in 1..Len(objs[o].keys), value \in GraphValues :
               CommitGraph(SetProperty(Graph, o, objs[o].keys[i], value),
                           [NoOp EXCEPT !.name = "set", !.ctrl = o,
                                        !.field = objs[o].keys[i],
                                        !.changed = value # objs[o].val[objs[o].keys[i]]])

\* A script calls array.push(arg) or map.set(key, arg).
CallMethod ==
    /\ steps > 0
    /\ op.name # "none"
    /\ ~thrown
    /\ \E o \in 1..Len(objs) :
         /\ objs[o].klass \in DOMAIN MUTATORS
         /\ Len(objs[o].keys) < Len(IndexKeys)
         /\ \E arg \in GraphValues :
               CommitGraph(CallMutator(Graph, o, arg),
                           [NoOp EXCEPT !.name = "call", !.ctrl = o,
                                        !.arg = IF arg.t = "ref" THEN arg.v ELSE 0])

NextObserver == Observe \/ SetField \/ CallMethod

SpecObserver == InitObserver /\ [][NextObserver]_vars

----------------------------------------------------------------------------
(* Claims about _patch, under SpecPatch.                                   *)

\* Two node lists of the same shape, tags, categories and attributes; only
\* the content of text nodes may differ.
RECURSIVE SameButTexts(_, _, _)
SameButTexts(ns, c, i) ==
    /\ Len(ns[c].kids) = Len(ns[i].kids)
    /\ \A k \in 1..Len(ns[c].kids) :
          LET a == ns[ns[c].kids[k]]
              b == ns[ns[i].kids[k]]
          IN  /\ a.type = b.type
              /\ a.tag = b.tag
              /\ a.attrs = b.attrs
              /\ a.type = "comment" => a.text = b.text
              /\ SameButTexts(ns, ns[c].kids[k], ns[i].kids[k])

\* The pairs <<committed text node, its incoming counterpart>> whose content differs.
RECURSIVE TextDiffs(_, _, _)
TextDiffs(ns, c, i) ==
    UNION {LET a == ns[c].kids[k]
               b == ns[i].kids[k]
           IN  IF ns[a].type = "text"
               THEN (IF ns[a].text # ns[b].text THEN {<<a, b>>} ELSE {})
               ELSE TextDiffs(ns, a, b)
           : k \in 1..Len(ns[c].kids)}

\* C4 (as claimed): after patch(committed, incoming) the committed tree
\* equals what incoming was before the call: same children at every level,
\* same categories, tags and text, and the same set of non-directive
\* attributes with the same values.
C4_CommittedEqualsIncoming ==
    op.name = "patch" => ContentOf(nodes, Document) = ContentOf(prev, Incoming)

\* C6: when incoming differs from committed only in the content of one text
\* node, patch replaces that text node by its incoming counterpart and does
\* nothing else: every other committed node keeps its parent and its
\* position, and the replaced node's slot is the only one that changed.
C6_OnlyTheTextNodeIsReplaced ==
    (/\ op.name = "patch"
     /\ SameButTexts(prev, Document, Incoming)
     /\ Cardinality(TextDiffs(prev, Document, Incoming)) = 1)
    => LET d == CHOOSE x \in TextDiffs(prev, Document, Incoming) : TRUE
           p == prev[d[1]].parent
       IN  /\ log = {Entry("replace", p, d[2], d[1], "")}
           /\ nodes[d[1]].parent = 0
           /\ nodes[d[2]].parent = p
           /\ \A n \in ({Document} \cup Below(prev, Document)) \ {d[1], p} :
                 /\ nodes[n].parent = prev[n].parent
                 /\ nodes[n].kids = prev[n].kids
           /\ nodes[p].kids =
                 [k \in 1..Len(prev[p].kids) |->
                     IF prev[p].kids[k] = d[1] THEN d[2] ELSE prev[p].kids[k]]

\* C6 witness: a patch of a one-text difference where the changed text node
\* had a sibling, which is still in place.
C6_Witness ==
    /\ op.name = "patch"
    /\ SameButTexts(prev, Document, Incoming)
    /\ Cardinality(TextDiffs(prev, Document, Incoming)) = 1
    /\ LET d == CHOOSE x \in TextDiffs(prev, Document, Incoming) : TRUE
       IN  /\ Len(prev[prev[d[1]].parent].kids) = 2
           /\ nodes[prev[d[1]].parent].kids # prev[prev[d[1]].parent].kids

\* The pairs <<committed element, incoming element>> that _patch leaves in
\* place: same index at every level, same category and tag.
RECURSIVE InPlace(_, _, _)
InPlace(ns, final, from) ==
    UNION {LET a == ns[final].kids[k]
               b == ns[from].kids[k]
           IN  IF ns[a].type = "element" /\ ns[b].type = "element"
                  /\ ns[a].tag = ns[b].tag
               THEN {<<a, b>>} \cup InPlace(ns, a, b)
               ELSE {}
           : k \in 1..(IF Len(ns[final].kids) < Len(ns[from].kids)
                       THEN Len(ns[final].kids) ELSE Len(ns[from].kids))}

\* C26: after patch has left an element in place, the Map of the committed
\* element is the very Map the incoming element had, or none when it had
\* none; no Map is changed by the patch, so the input names and the local
\* context reachable from the committed element are the incoming ones and
\* nothing of the previous occupant's.
C26_MetadataIsOverwritten ==
    [][op'.name = "patch"
       => /\ metas' = metas
          /\ \A pr \in InPlace(nodes, Document, Incoming) :
                nodes'[pr[1]].meta = nodes[pr[2]].meta]_vars

\* C26 witness: a committed <p> that had input names was left in place by
\* an incoming <p> without metadata, below a parent also left in place,
\* and has none now.
C26_Witness ==
    /\ op.name = "patch"
    /\ \E pr \in InPlace(prev, Document, Incoming) :
          /\ prev[pr[1]].parent # Document
          /\ prev[pr[1]].meta # 0
          /\ metas[prev[pr[1]].meta].hasInputs
          /\ prev[pr[2]].meta = 0
          /\ nodes[pr[1]].meta = 0
          /\ nodes[pr[1]].parent = prev[pr[1]].parent

-----------------------------------------------------------------------------
(* Claims about Load and the change detector (Spec, SpecSiblings).         *)

\* The property each component's template interpolates in its first element.
Interpolated ==
    [AppRoot |-> "n", ChildComp |-> "s", SideBar |-> "k", LoginView |-> "isLoggedIn"]

\* The text the first element of a host element shows; "" when it shows none.
ShownText(ns, el) ==
    IF ns[el].kids = <<>> THEN ""
    ELSE LET first == ns[ns[el].kids[1]]
         IN  IF first.type = "element" /\ first.kids # <<>>
             THEN ns[first.kids[1]].text
             ELSE ""

\* The host elements of the document that hold controller c.
HostsOf(c) ==
    {el \in AttachedComponents : ControllerOf(World, el) = c}

\* C1 (as claimed): after a script assigns a different value to a property
\* of the controller attached to a mounted host element, the live host shows
\* the new value when control returns, and no node other than a text node
\* has been replaced, inserted or removed.
C1_WriteShowsInLiveHost ==
    (/\ op.name = "write"
     /\ op.changed
     /\ ~thrown
     /\ op.field = Interpolated[ctrls[op.ctrl].cls]
     /\ Truthy(ctrls[op.ctrl].fields[op.field]))
    => \A el \in HostsOf(op.ctrl) :
          /\ ShownText(nodes, el) = Str(ctrls[op.ctrl].fields[op.field])
          /\ \A e \in log :
                e.op \in {"replace", "append", "remove"}
                => e.op = "replace" /\ prev[e.old].type = "text"

\* C2: every write of a different value to an observed property runs
\* exactly one render cycle before the assignment returns, and a write of
\* the value the property already holds runs none.
C2_OneRenderPerChangingWrite ==
    /\ renders = writes
    /\ op.name = "write" => op.rendered = (IF op.changed THEN 1 ELSE 0)

\* C2 witness: two changing writes have been followed by a write of the
\* value already held, which rendered nothing.
C2_Witness ==
    /\ op.name = "write"
    /\ ~op.changed
    /\ op.rendered = 0
    /\ writes = 2
    /\ renders = 2

\* C3 (as claimed): no operation replaces the controller stored on a host
\* element that stays in the document by a different instance.
C3_ControllerNeverReplaced ==
    [][\A el \in AttachedComponents :
          (ControllerOf(World, el) # 0 /\ Attached(nodes', el))
          => /\ nodes'[el].meta # 0
             /\ metas'[nodes'[el].meta].ctrl = ControllerOf(World, el)]_vars

\* C5 (as claimed): the second of two consecutive Loads of the same mounted
\* host element, with no assignment in between, writes nothing to the DOM.
C5_SecondLoadWritesNothing ==
    (op.name = "loadElement" /\ op.twice /\ ~thrown) => log = {}

\* The controller of the component that declares the child in its template.
ParentOf(cs, c) ==
    CHOOSE p \in 1..Len(cs) : cs[p].cls = "AppRoot"

\* C9: a child controller is constructed with its input property set to the
\* value of the attribute's expression in the parent's context: the child
\* declared with data-iq.count="n" starts with count equal to the parent's n.
C9_ChildStartsWithParentsValue ==
    [][\A c \in (Len(ctrls) + 1)..Len(ctrls') :
          ctrls'[c].cls = "ChildComp"
          => /\ "count" \in DOMAIN ctrls'[c].fields
             /\ ctrls'[c].fields.count = ctrls'[ParentOf(ctrls', c)].fields.n]_vars

\* C9 witness: a child constructed in a render of its parent after the
\* parent's n was assigned holds that value, and the parent still does.
C9_Witness ==
    /\ op.name = "write"
    /\ ctrls[op.ctrl].cls = "AppRoot"
    /\ op.field = "n"
    /\ op.changed
    /\ \E c \in 1..Len(ctrls) :
          /\ ctrls[c].cls = "ChildComp"
          /\ \E el \in HostsOf(c) : TRUE
          /\ "count" \in DOMAIN ctrls[c].fields
          /\ ctrls[c].fields.count = ctrls[op.ctrl].fields.n
          /\ ctrls[c].fields.count # InitialFields("AppRoot").n

\* C10 (as claimed): Load(document) never raises, and every host element
\* whose class is declared is mounted by it even when the class of another
\* host element of the page is not declared.
C10_UndeclaredClassIsSkipped ==
    op.name = "loadDocument"
    => /\ ~thrown
       /\ \A el \in AttachedComponents :
             _toPascalCase(nodes[el].tag) \in Declared
             => ControllerOf(World, el) # 0 /\ nodes[el].kids # <<>>

-----------------------------------------------------------------------------
(* Claims about the directives, under SpecDirectives.                      *)

\* The mounted list-view elements of the document.
Lists ==
    {el \in AttachedComponents :
        nodes[el].tag = "list-view" /\ ControllerOf(World, el) # 0}

\* C7: the element that carries `for` is rendered as one clone per item of
\* the iterable, in iteration order, each clone interpolated with the loop
\* variable bound to its item and holding that binding in its metadata.
C7_OneClonePerItemInOrder ==
    \A el \in Lists :
        LET items == ctrls[ControllerOf(World, el)].fields.items
            lis == nodes[nodes[el].kids[1]].kids
        IN  /\ Len(lis) = Len(items)
            /\ \A i \in 1..Len(items) :
                  /\ nodes[lis[i]].tag = "li"
                  /\ "data-iq.for" \notin DOMAIN nodes[lis[i]].attrs
                  /\ Len(nodes[lis[i]].kids) = 1
                  /\ nodes[nodes[lis[i]].kids[1]].text = Str(items[i])
                  /\ nodes[lis[i]].meta # 0
                  /\ metas[nodes[lis[i]].meta].hasLocal
                  /\ metas[nodes[lis[i]].meta].local = [x |-> items[i]]

\* C7 witness: a list of two items that are not in ascending order has been
\* rendered after an assignment, as two clones.
C7_Witness ==
    /\ op.name = "write"
    /\ op.field = "items"
    /\ \E el \in Lists :
          LET items == ctrls[ControllerOf(World, el)].fields.items
          IN  /\ Len(items) = 2
              /\ items[1] > items[2]
              /\ Len(nodes[nodes[el].kids[1]].kids) = 2

\* C8: an element whose `if` is falsy is rendered as one comment at the
\* element's index, so the host has the same number of children and the
\* following sibling the same position either way; an assignment that only
\* toggles the condition replaces the node at that index and nothing else.
C8_PlaceholderKeepsPositions ==
    \A el \in Lists :
        LET c == ControllerOf(World, el)
            kids == nodes[el].kids
        IN  /\ Len(kids) = 3
            /\ nodes[kids[2]].type =
                  (IF Truthy(ctrls[c].fields.show) THEN "element" ELSE "comment")
            /\ nodes[kids[3]].tag = "b"
            /\ (op.name = "write" /\ op.field = "show" /\ op.ctrl = c)
               => /\ kids[1] = prev[el].kids[1]
                  /\ kids[3] = prev[el].kids[3]
                  /\ log \subseteq {Entry("replace", el, kids[2], prev[el].kids[2], "")}
                  /\ (prev[prev[el].kids[2]].type # nodes[kids[2]].type) <=> log # {}

\* C8 witness: an assignment made the condition falsy: a comment took the
\* element's place and the following sibling is the node it was.
C8_Witness ==
    /\ op.name = "write"
    /\ op.field = "show"
    /\ \E el \in Lists :
          /\ nodes[nodes[el].kids[2]].type = "comment"
          /\ prev[prev[el].kids[2]].type = "element"
          /\ nodes[el].kids[3] = prev[el].kids[3]
          /\ Cardinality(log) = 1

----------------------------------------------------------------------------
(* Claims about failures, hooks and the global state.                      *)

\* The host elements in the document whose tag names no declared class.
UndeclaredHosts ==
    {el \in AttachedComponents : _toPascalCase(nodes[el].tag) \notin Declared}

\* C11: a render cycle never raises because an expression of a template
\* could not be evaluated: on a page whose host elements all name declared
\* classes, every Load and every write completes without raising.
C11_EvaluationFailuresAreRecovered == thrown => UndeclaredHosts # {}

\* The controllers the step under way instantiates.
Instantiated == (Len(ctrls) + 1)..Len(ctrls')

\* C12: every controller a Load call instantiates, for a root-level or for a
\* nested component element, has had $iqOnMount called by the time the
\* outermost Load returns.
C12_EveryControllerIsMounted ==
    [][~thrown' =>
          \A c \in Instantiated :
              \E i \in 1..Len(hooks') : hooks'[i] = [ctrl |-> c, hook |-> "$iqOnMount"]]_vars

\* The controller of the element whose render cycle the step under way is.
CycleController ==
    IF nodes'[op'.el].meta = 0 THEN 0 ELSE metas'[nodes'[op'.el].meta].ctrl

\* The step under way is a render cycle of a component element that returns.
IsCycle ==
    /\ ~thrown'
    /\ \/ op'.name = "loadElement"
       \/ op'.name = "write" /\ op'.rendered > 0

\* C13: in a Load of a component element the hooks are called only after
\* the patch of the host, $iqOnChange first and $iqOnMount right after it;
\* $iqOnMount is called only for a controller instantiated in this cycle,
\* at most once; $iqOnChange is called once for the element's controller.
C13_HooksAfterPatchInOrder ==
    [][/\ \A i \in 1..Len(hooks') :
            /\ hooks'[i].hook = "$iqOnChange" =>
                  i > 1 /\ hooks'[i - 1] = [ctrl |-> hooks'[i].ctrl, hook |-> "_patch"]
            /\ hooks'[i].hook = "$iqOnMount" =>
                  /\ i > 1
                  /\ hooks'[i - 1] = [ctrl |-> hooks'[i].ctrl, hook |-> "$iqOnChange"]
                  /\ hooks'[i].ctrl \in Instantiated
                  /\ \A j \in 1..Len(hooks') : hooks'[j] = hooks'[i] => j = i
       /\ IsCycle =>
            Cardinality({i \in 1..Len(hooks') :
                            hooks'[i] = [ctrl |-> CycleController, hook |-> "$iqOnChange"]}) = 1
      ]_vars

\* A first Load of a component element has called both hooks; a later one
\* of the same element has called $iqOnChange alone.
C13_Witness ==
    /\ op.name = "loadElement" /\ op.mounted /\ ~thrown
    /\ \E i \in 1..Len(hooks) : hooks[i].hook = "$iqOnChange"
    /\ \A i \in 1..Len(hooks) : hooks[i].hook # "$iqOnMount"

\* C14: when a call of the store's update or delete has returned, every
\* mounted component that shows the value of the key shows the value the
\* store now holds for it.
C14_StateWriteShowsEverywhere ==
    (op.name \in {"update", "delete"} /\ ~thrown)
    => \A el \in AttachedComponents :
          (ControllerOf(World, el) # 0 /\ nodes[el].tag = "login-view")
          => ShownText(nodes, el) = Str(APP_STATE_get(World, op.field))

\* Node n is the host element or lies below it.
RECURSIVE Within(_, _, _)
Within(ns, n, host) ==
    \/ n = host
    \/ ns[n].parent # 0 /\ Within(ns, ns[n].parent, host)

\* Controller c is the one stored on the host element or on an element below it.
HeldWithin(ns, c, host) ==
    \E el \in 1..Len(ns) :
        Within(ns, el, host) /\ ns[el].meta # 0 /\ metas[ns[el].meta].ctrl = c

\* C17: a render cycle that a write to an observed property triggers changes
\* no live node outside the host element of the written controller and
\* calls hooks only of controllers stored on elements of that host's subtree.
C17_RenderStaysInsideHost ==
    (op.name = "write" /\ op.rendered > 0)
    => /\ \A n \in 1..Len(prev) :
             (Attached(prev, n) /\ ~Within(prev, n, op.el)) => nodes[n] = prev[n]
       /\ \A e \in log : Within(prev, e.at, op.el) \/ Within(nodes, e.at, op.el)
       /\ \A i \in 1..Len(hooks) :
             HeldWithin(prev, hooks[i].ctrl, op.el) \/ HeldWithin(nodes, hooks[i].ctrl, op.el)

\* A write to the nested component re-rendered it inside its parent's host.
C17_Witness ==
    /\ op.name = "write" /\ op.rendered > 0 /\ ~thrown
    /\ nodes[op.el].tag = "child-comp" /\ Attached(nodes, op.el)
    /\ log # {} /\ hooks # <<>>

\* C20: when a listener has run, the controller has the fields it had
\* before the event, one named like an iteration variable included, each
\* with the value it had (the handler pick(x) assigns none), and neither
\* $iqEvent nor a key of the local context has been added.
C20_EventRestoresContext ==
    [][(op'.name = "click" /\ ~thrown')
       => ctrls'[op'.ctrl].fields = ctrls[op'.ctrl].fields]_vars

\* The positions in the call sequence of the patches of a host element.
HostPatches == {i \in 1..Len(hooks) : hooks[i].hook = "_patch"}

\* C24: one root-level Load call patches a scratch tree into a live host
\* element exactly once, however many component elements it discovers.
C24_OneLivePatchPerLoad ==
    (op.name \in {"loadDocument", "loadElement"} /\ ~thrown)
    => Cardinality(HostPatches) = 1

\* C25: Load handles the root before its descendants: when Load is called
\* on a component element that has component elements below it, the first
\* host it patches is the root itself.
C25_RootBeforeDescendants ==
    (op.name = "loadElement" /\ ~thrown /\ HostPatches # {})
    => hooks[CHOOSE i \in HostPatches : \A j \in HostPatches : i <= j].ctrl
          = ControllerOf(World, op.el)

\* The mounted host elements of the document with the given tag.
Mounted(tag) ==
    {el \in AttachedComponents : nodes[el].tag = tag /\ ControllerOf(World, el) # 0}

\* The elements with the given tag below a host element of the document.
ElementsIn(host, tag) ==
    {n \in 1..Len(nodes) :
        n # host /\ nodes[n].type = "element" /\ nodes[n].tag = tag
                 /\ Within(nodes, n, host)}

\* The attribute names a template writes on its elements.
RECURSIVE AttrNames(_)
AttrNames(ts) ==
    UNION {DOMAIN ts[i].attrs \cup AttrNames(ts[i].kids) : i \in 1..Len(ts)}

\* C27: what a Load of several component elements commits into one host
\* comes from that host's own template: below a mounted <login-view> no
\* element carries an attribute that LoginView's template does not write.
C27_HostHoldsOnlyItsOwnTemplate ==
    \A host \in Mounted("login-view") :
        \A n \in 1..Len(nodes) :
            (n # host /\ Within(nodes, n, host))
            => DOMAIN nodes[n].attrs \subseteq AttrNames(TemplateOf("LoginView"))

\* The instances whose constructor ran for the host element.
InstancesFor(el) == {c \in 1..Len(ctrls) : ctrls[c].el = el}

\* C28: a Load that instantiates a component whose constructor writes the
\* global state returns; the constructor has run once for the host element,
\* which holds the one instance as its controller.
C28_ConstructorWriteTerminates ==
    \A el \in AttachedComponents :
        (nodes[el].tag = "auth-gate" /\ op.name \in {"loadDocument", "loadElement"})
        => /\ ~thrown
           /\ Cardinality(InstancesFor(el)) = 1
           /\ ControllerOf(World, el) \in InstancesFor(el)

----------------------------------------------------------------------------
(* Claims about nested templates, under SpecNested.                        *)

\* C21: a node generated under a `for` holds in its metadata the binding of
\* every enclosing `for` variable: the <a> inside the inner `for` (y) nested
\* in the outer one (x) has both x and y in its local context, which is what
\* its click handler pick(x, y) is evaluated with.
C21_InnerNodesKeepOuterBinding ==
    \A host \in Mounted("grid-view") :
        \A n \in ElementsIn(host, "a") :
            {"x", "y"} \subseteq DOMAIN LocalContext(World, n)

\* C22: an input attribute on a node that a `for` generated is handled
\* without raising: the Load returns, and the generated <b data-iq.count="x">
\* has `count` among its input names and the item as its property.
C22_InputsOnGeneratedNodes ==
    \A host \in Mounted("row-list") :
        /\ ~thrown
        /\ nodes[host].kids # <<>>
        /\ \A n \in ElementsIn(host, "b") :
              /\ nodes[n].meta # 0
              /\ metas[nodes[n].meta].hasInputs
              /\ "count" \in metas[nodes[n].meta].inputs
              /\ "count" \in DOMAIN nodes[n].props

\* C23: the fragment of a nested component is patched into the component
\* element itself, which stays where the parent's template put it: the
\* <side-bar> that WrapView's template declares inside a <div> is still the
\* child of that <div> once the host is mounted, and holds its own content.
C23_NestedHostKeepsItsPlace ==
    \A host \in Mounted("wrap-view") :
        ~thrown =>
            \A d \in ElementsIn(host, "div") :
                /\ \E n \in ElementsIn(host, "side-bar") : nodes[n].parent = d
                /\ \A n \in ElementsIn(host, "p") : nodes[nodes[n].parent].tag = "side-bar"

----------------------------------------------------------------------------
(* Claims about the observer, under SpecObserver.                          *)

\* Object o is the value of an intercepted property of some object.
HeldByObserved(o) ==
    \E q \in 1..Len(objs) : \E prop \in objs[q].acc : objs[q].val[prop] = Ref(o)

\* C15: every property the target had when it was observed is intercepted,
\* one that held undefined included: a write of a different value to it
\* calls the callback.
C15_EveryPropertyIsIntercepted ==
    [][(op'.name = "set" /\ op'.ctrl = Target /\ op'.changed) => renders' > renders]_vars

\* C16: observing a target whose properties hold numbers, undefined, null,
\* plain objects or containers does not raise, and neither does a later
\* write of any such value.
C16_ObserverNeverRaises == op.name \in {"observe", "set"} => ~thrown

\* C18: a call of a mutating method on a container that an intercepted
\* property holds calls the callback, and an object the call puts into the
\* container has every property intercepted afterwards.
C18_MutatorsObserveWhatTheyAdd ==
    [][(op'.name = "call" /\ HeldByObserved(op'.ctrl) /\ ~thrown')
       => /\ renders' > renders
          /\ op'.arg # 0 =>
                \A i \in 1..Len(objs'[op'.arg].keys) :
                    objs'[op'.arg].keys[i] \in objs'[op'.arg].acc]_vars

\* C19: a write of a different value to a field of a plain object that an
\* intercepted property holds calls the callback, whether the object was
\* there when the target was observed or was assigned afterwards.
C19_NestedObjectsAreObserved ==
    [][(op'.name = "set" /\ op'.ctrl # Target /\ op'.changed
        /\ HeldByObserved(op'.ctrl))
       => renders' > renders]_vars


====
